---- MODULE Spec2Model ----
(***************************************************************************)
(* Model of Falcor's RtProgramVars (Framework/Source/Raytracing/           *)
(* RtProgramVars.cpp): construction of the shader binding table (SBT),     *)
(* the record accessors and apply().                                       *)
(*                                                                         *)
(* A program is represented by the byte size of its root signature, which  *)
(* is the only property of a program the file reads at construction.  The  *)
(* staging copy mSbtData and the GPU buffer mpSBT are kept as their byte   *)
(* size plus one entry per record-sized slot; a slot holds what the last   *)
(* applyRtProgramVars() wrote there (which program's identifier, of which  *)
(* state object, and whether the parameter block was serialized).          *)
(*                                                                         *)
(* The file computes in uint32_t.  Every quantity of the model (at most    *)
(* a few thousand bytes) is far below 2^32, so no operation wraps and the  *)
(* arithmetic is written without the reduction modulo 2^32.                *)
(***************************************************************************)
EXTENDS Integers, Sequences, FiniteSets, TLC

(* ------------------------------ bounds --------------------------------- *)
MaxHit == 2
MaxMiss == 1
MaxGeom == 2
MaxApplies == 2

\* root-signature sizes (bytes) the programs of a layout run are drawn from
RootSigSizes == {0, 8, 72}
\* root-signature size of every program in the apply runs
ApplyRootSigSizes == {8}
\* the state objects (pRtso) an apply() call is made with
StateObjects == {1, 2}
\* GetShaderIdentifierSize() of the device
ShaderIdentifierSizes == {32}

(* ------------------------- program constants --------------------------- *)
kRayGenSbtRecordIndex == 0
kFirstMissSbtRecordIndex == 1
D3D12_RAYTRACING_SHADER_RECORD_BYTE_ALIGNMENT == 32

max(a, b) == IF a > b THEN a ELSE b

\* align_to(alignment, value) of Framework.h: round value up to a multiple
align_to(alignment, val) == ((val + alignment - 1) \div alignment) * alignment

VARIABLES pProgram, pScene, idSize, created, pVars, ret, log, heapCorrupt, applies, lastPtr

vars == <<pProgram, pScene, idSize, created, pVars, ret, log, heapCorrupt, applies, lastPtr>>

(* ------------------------------ values --------------------------------- *)
SeqsUpTo(S, n) == UNION {[1..k -> S] : k \in 0..n}

Programs(sizes) ==
    [hasRayGen : BOOLEAN, rayGen : sizes,
     hit : SeqsUpTo(sizes, MaxHit), miss : SeqsUpTo(sizes, MaxMiss)]

Scenes == [present : BOOLEAN, geometryCount : 0..MaxGeom]

\* a record slot nothing was written to yet
EmptySlot ==
    [cat |-> "none", prog |-> 0, vars |-> [cat |-> "none", prog |-> 0, geom |-> 0],
     rtso |-> 0, ok |-> FALSE]

\* a GraphicsVars instance, created with the root signature of its program
GraphicsVars_create(rootSig) == [rootSig |-> rootSig]

\* the object right after the constructor: no member set by init() yet
RtProgramVars(program, scene) ==
    [mRayGenVars |-> <<>>, mHitVars |-> <<>>, mMissVars |-> <<>>,
     mHitProgCount |-> 0, mMissProgCount |-> 0, mFirstHitVarEntry |-> 0,
     mProgramIdentifierSize |-> 0, mRecordSize |-> 0,
     mpSBT |-> [size |-> 0, data |-> <<>>],
     mSbtData |-> [size |-> 0, data |-> <<>>],
     initRun |-> FALSE]

\* a slot of the freshly created GPU buffer: contents not yet defined
UninitSlot ==
    [cat |-> "uninit", prog |-> 0, vars |-> [cat |-> "none", prog |-> 0, geom |-> 0],
     rtso |-> 0, ok |-> FALSE]

NoPtr == [fn |-> "none", a |-> 0, b |-> 0, fatal |-> FALSE, offset |-> 0]

(* --------------------------- construction ------------------------------ *)
\* mutant: the ray-gen program is not looked at
checkParams_sceneOnly(program, scene) ==
    IF ~scene.present THEN FALSE
    ELSE TRUE

checkParams(program, scene) ==
    IF ~scene.present THEN FALSE
    ELSE IF ~program.hasRayGen THEN FALSE
    ELSE TRUE

\* mutant: the size of the program at hand replaces the running maximum
getSigSizeAndCreateVars_lastSize(progRootSig, maxRootSigSize, varCount) ==
    [maxRootSigSize |-> progRootSig,
     pVars |-> [i \in 1..varCount |-> GraphicsVars_create(progRootSig)]]

\* mutant: the creation loop runs to i <= varCount
getSigSizeAndCreateVars_oneMore(progRootSig, maxRootSigSize, varCount) ==
    [maxRootSigSize |-> max(progRootSig, maxRootSigSize),
     pVars |-> [i \in 1..(varCount + 1) |-> GraphicsVars_create(progRootSig)]]

\* one call: the running maximum and the varCount instances it creates
getSigSizeAndCreateVars(progRootSig, maxRootSigSize, varCount) ==
    [maxRootSigSize |-> max(progRootSig, maxRootSigSize),
     pVars |-> [i \in 1..varCount |-> GraphicsVars_create(progRootSig)]]

RECURSIVE MaxOver(_, _)
\* the running maximum after calling getSigSizeAndCreateVars on every program of s
MaxOver(s, m) ==
    IF s = <<>> THEN m
    ELSE MaxOver(Tail(s), getSigSizeAndCreateVars(Head(s), m, 0).maxRootSigSize)

init(obj, program, scene, devIdSize) ==
    LET rg == getSigSizeAndCreateVars(program.rayGen, 0, 1)
        hitProgCount == Len(program.hit)
        missProgCount == Len(program.miss)
        recordCountPerHit == scene.geometryCount
        hitVars == [i \in 1..hitProgCount |->
                      getSigSizeAndCreateVars(program.hit[i], 0, recordCountPerHit).pVars]
        missVars == [i \in 1..missProgCount |->
                      getSigSizeAndCreateVars(program.miss[i], 0, 1).pVars[1]]
        maxRootSigSize == MaxOver(program.miss, MaxOver(program.hit, rg.maxRootSigSize))
        hitEntries == (recordCountPerHit * hitProgCount)
        numEntries == (missProgCount + hitEntries + 1)
        recordSize == align_to(D3D12_RAYTRACING_SHADER_RECORD_BYTE_ALIGNMENT,
                               (devIdSize + maxRootSigSize))
        sbtSize == (numEntries * recordSize)
        slots == IF recordSize = 0 THEN 0 ELSE sbtSize \div recordSize
    IN [obj EXCEPT
          !.mRayGenVars = rg.pVars,
          !.mHitProgCount = hitProgCount,
          !.mMissProgCount = missProgCount,
          !.mFirstHitVarEntry = (kFirstMissSbtRecordIndex + missProgCount),
          !.mMissVars = missVars,
          !.mHitVars = hitVars,
          !.mProgramIdentifierSize = devIdSize,
          !.mRecordSize = recordSize,
          !.mpSBT = [size |-> sbtSize, data |-> [i \in 1..slots |-> UninitSlot]],
          !.mSbtData = [size |-> sbtSize, data |-> [i \in 1..slots |-> EmptySlot]],
          !.initRun = TRUE]

\* create(): "nullptr", "object", or "fatal" when assert(mRecordSize != 0) fires
create(program, scene, devIdSize) ==
    LET fresh == RtProgramVars(program, scene) IN
    IF checkParams(program, scene) = FALSE
    THEN [result |-> "nullptr", obj |-> fresh]
    ELSE LET o == init(fresh, program, scene, devIdSize) IN
         IF o.mRecordSize = 0
         THEN [result |-> "fatal", obj |-> o]
         ELSE [result |-> "object", obj |-> o]

(* ----------------------------- accessors ------------------------------- *)
getRayGenRecordPtr(obj) ==
    [fatal |-> FALSE, offset |-> (kRayGenSbtRecordIndex * obj.mRecordSize)]

getMissRecordPtr(obj, missId) ==
    IF ~(missId < obj.mMissProgCount)
    THEN [fatal |-> TRUE, offset |-> 0]
    ELSE [fatal |-> FALSE,
          offset |-> (obj.mRecordSize * (kFirstMissSbtRecordIndex + missId))]

\* mutant: the mesh index is not scaled by the hit program count
getHitRecordPtr_noStride(obj, hitId, meshId) ==
    IF ~(hitId < obj.mHitProgCount)
    THEN [fatal |-> TRUE, offset |-> 0]
    ELSE LET meshIndex == (obj.mFirstHitVarEntry + meshId)
             recordIndex == (meshIndex + hitId)
         IN [fatal |-> FALSE, offset |-> (recordIndex * obj.mRecordSize)]

getHitRecordPtr(obj, hitId, meshId) ==
    IF ~(hitId < obj.mHitProgCount)
    THEN [fatal |-> TRUE, offset |-> 0]
    ELSE LET meshIndex == (obj.mFirstHitVarEntry + (obj.mHitProgCount * meshId))
             recordIndex == (meshIndex + hitId)
         IN [fatal |-> FALSE, offset |-> (recordIndex * obj.mRecordSize)]

(* ------------------------------- apply --------------------------------- *)
\* names a binding-variable instance: mRayGenVars, mHitVars[prog][geom], mMissVars[prog]
Key(cat, prog, geom) == [cat |-> cat, prog |-> prog, geom |-> geom]

\* names a program of the program set: ray-gen, hit program prog, miss program prog
Prog(cat, prog) == [cat |-> cat, prog |-> prog]

\* one call of applyRtProgramVars(): the record, the program, the instance, the result
LogEntry(prog, key, offset, ok) ==
    [cat |-> prog.cat, prog |-> prog.prog, vars |-> key, offset |-> offset, ok |-> ok]

UploadEntry == LogEntry(Prog("upload", 0), Key("none", 0, 0), 0, TRUE)

\* the binding-variable instances the object owns
Instances(obj) ==
    {Key("rg", 0, 0)}
      \cup UNION {{Key("hit", h - 1, g) : g \in 0..(Len(obj.mHitVars[h]) - 1)} :
                      h \in 1..Len(obj.mHitVars)}
      \cup {Key("miss", m, 0) : m \in 0..(Len(obj.mMissVars) - 1)}

\* does the object own the instance mHitVars[h][i] ?
HasHitVars(obj, h, i) == h < Len(obj.mHitVars) /\ i < Len(obj.mHitVars[h + 1])

\* is the record-sized span at this offset inside mSbtData ?
InStaging(obj, offset) == offset + obj.mRecordSize <= obj.mSbtData.size

\* applyRtProgramVars(): the identifier of the program in the state object is
\* copied to the record, the root parameters are pointed behind it, and the
\* instance's applyProgramVarsCommon() serializes them; its result is returned.
applyRtProgramVars(st, obj, offset, prog, key, rtso, bad) ==
    LET slot == (offset \div obj.mRecordSize) + 1
        varsOk == key \notin bad
        written == [cat |-> prog.cat, prog |-> prog.prog, vars |-> key,
                    rtso |-> rtso, ok |-> varsOk]
    IN [st EXCEPT !.data = [st.data EXCEPT ![slot] = written],
                  !.log = Append(st.log, LogEntry(prog, key, offset, varsOk)),
                  !.ok = varsOk]

\* the same call on a record outside mSbtData with an instance outside
\* mHitVars[h]: undefined behaviour, one of crash / returns true / returns false
applyOutOfBounds(st, offset, prog, key, ub) ==
    [st EXCEPT !.log = Append(st.log, LogEntry(prog, key, offset, ub = "true")),
               !.corrupt = (ub # "crash"),
               !.ret = IF ub = "crash" THEN "crash" ELSE st.ret,
               !.ok = (ub = "true")]

\* the ray-gen record; the result of the call is not looked at
applyRayGenRecord(st, obj, rtso, bad) ==
    [applyRtProgramVars(st, obj, getRayGenRecordPtr(obj).offset, Prog("rg", 0),
                        Key("rg", 0, 0), rtso, bad)
       EXCEPT !.ok = TRUE]

applyHitRecord(st, obj, h, i, rtso, bad, ub) ==
    LET p == getHitRecordPtr(obj, h, i) IN
    IF p.fatal THEN [st EXCEPT !.ret = "fatal", !.ok = FALSE]
    ELSE IF HasHitVars(obj, h, i) /\ InStaging(obj, p.offset)
    THEN applyRtProgramVars(st, obj, p.offset, Prog("hit", h), Key("hit", h, i), rtso, bad)
    ELSE applyOutOfBounds(st, p.offset, Prog("hit", h), Key("hit", h, i), ub)

applyMissRecord(st, obj, m, rtso, bad) ==
    LET p == getMissRecordPtr(obj, m) IN
    IF p.fatal THEN [st EXCEPT !.ret = "fatal", !.ok = FALSE]
    ELSE applyRtProgramVars(st, obj, p.offset, Prog("miss", m), Key("miss", m, 0), rtso, bad)

RECURSIVE hitLoop_geometryOuter(_, _, _, _, _, _, _, _, _)
\* mutant: the loops are nested the other way, geometry instance outer
hitLoop_geometryOuter(st, obj, hitCount, geometryCount, h, i, rtso, bad, ub) ==
    IF ~(i < geometryCount) THEN st
    ELSE IF ~(h < hitCount)
    THEN hitLoop_geometryOuter(st, obj, hitCount, geometryCount, 0, i + 1, rtso, bad, ub)
    ELSE LET st1 == applyHitRecord(st, obj, h, i, rtso, bad, ub) IN
         IF st1.ret # "running" THEN st1
         ELSE IF ~st1.ok THEN [st1 EXCEPT !.ret = "false"]
         ELSE hitLoop_geometryOuter(st1, obj, hitCount, geometryCount, h + 1, i, rtso, bad, ub)

RECURSIVE hitLoop(_, _, _, _, _, _, _, _, _)
\* for (h ...) for (i = 0; i < mpScene->getGeometryCount(hitCount); i++)
hitLoop(st, obj, hitCount, geometryCount, h, i, rtso, bad, ub) ==
    IF ~(h < hitCount) THEN st
    ELSE IF ~(i < geometryCount)
    THEN hitLoop(st, obj, hitCount, geometryCount, h + 1, 0, rtso, bad, ub)
    ELSE LET st1 == applyHitRecord(st, obj, h, i, rtso, bad, ub) IN
         IF st1.ret # "running" THEN st1
         ELSE IF ~st1.ok THEN [st1 EXCEPT !.ret = "false"]
         ELSE hitLoop(st1, obj, hitCount, geometryCount, h, i + 1, rtso, bad, ub)

RECURSIVE missLoop(_, _, _, _, _, _)
\* for (m = 0; m < mpProgram->getMissProgramCount(); m++)
missLoop(st, obj, missCount, m, rtso, bad) ==
    IF ~(m < missCount) THEN st
    ELSE LET st1 == applyMissRecord(st, obj, m, rtso, bad) IN
         IF st1.ret # "running" THEN st1
         ELSE IF ~st1.ok THEN [st1 EXCEPT !.ret = "false"]
         ELSE missLoop(st1, obj, missCount, m + 1, rtso, bad)

\* mutant: the transfer stops one record short of the end of mSbtData
updateBuffer_short(gpu, data) ==
    [k \in 1..Len(data) |-> IF k < Len(data) THEN data[k] ELSE gpu[k]]

\* pCtx->updateBuffer(mpSBT.get(), mSbtData.data()): the whole of mSbtData
updateBuffer(gpu, data) == data

\* mutant: the upload is made on the failure path as well
uploadAndReturn_always(st) ==
    IF st.ret \notin {"running", "false"} THEN st
    ELSE [st EXCEPT !.gpu = updateBuffer(st.gpu, st.data),
                    !.log = Append(st.log, UploadEntry),
                    !.ret = IF st.ret = "running" THEN "true" ELSE st.ret]

\* the last two statements of apply(), reached when no loop returned
uploadAndReturn(st) ==
    IF st.ret # "running" THEN st
    ELSE [st EXCEPT !.gpu = updateBuffer(st.gpu, st.data),
                    !.log = Append(st.log, UploadEntry),
                    !.ret = "true"]

apply(obj, program, scene, rtso, bad, ub) ==
    LET st0 == [data |-> obj.mSbtData.data, gpu |-> obj.mpSBT.data, log |-> <<>>,
                ret |-> "running", ok |-> TRUE, corrupt |-> FALSE]
        st1 == applyRayGenRecord(st0, obj, rtso, bad)
        hitCount == Len(program.hit)
        st2 == hitLoop(st1, obj, hitCount, scene.geometryCount, 0, 0, rtso, bad, ub)
        st3 == IF st2.ret # "running" THEN st2
               ELSE missLoop(st2, obj, Len(program.miss), 0, rtso, bad)
    IN uploadAndReturn(st3)

(* ------------------------------ actions -------------------------------- *)
InitOver(sizes) ==
    /\ pProgram \in Programs(sizes)
    /\ pScene \in Scenes
    /\ idSize \in ShaderIdentifierSizes
    /\ created = "no"
    /\ pVars = RtProgramVars(pProgram, pScene)
    /\ ret = "none"
    /\ log = <<>>
    /\ heapCorrupt = FALSE
    /\ applies = 0
    /\ lastPtr = NoPtr

Init == InitOver(ApplyRootSigSizes)

InitLayout == InitOver(RootSigSizes)

Alive == created = "object" /\ ret \notin {"crash", "fatal"}

\* RtProgramVars::create(pProgram, pScene)
Create ==
    /\ created # "fatal" /\ ret \notin {"crash", "fatal"}
    /\ LET c == create(pProgram, pScene, idSize) IN
         /\ created' = c.result
         /\ pVars' = c.obj
    /\ ret' = "none"
    /\ log' = <<>>
    /\ applies' = 0
    /\ lastPtr' = NoPtr
    /\ UNCHANGED <<pProgram, pScene, idSize, heapCorrupt>>

\* the scene is edited: its geometry count changes
SceneEdit ==
    /\ pScene.present
    /\ \E g \in 0..MaxGeom :
         /\ g # pScene.geometryCount
         /\ pScene' = [pScene EXCEPT !.geometryCount = g]
    /\ UNCHANGED <<pProgram, idSize, created, pVars, ret, log, heapCorrupt, applies, lastPtr>>

\* at most two instances are unresolvable at a call
BadSets(obj) == {{}} \cup {{a, b} : a, b \in Instances(obj)}

\* the state object of a call: identifiers are opaque, so the first call of
\* an object's life is made with state object 1 without loss of generality
RtsoChoices(n) == IF n = 0 THEN {1} ELSE StateObjects

\* the outcomes of the undefined behaviour, where a call can run into it
UbOutcomes(obj, program, scene) ==
    IF \E h \in 0..(Len(program.hit) - 1), i \in 0..(scene.geometryCount - 1) :
         ~HasHitVars(obj, h, i)
    THEN {"crash", "true", "false"}
    ELSE {"true"}

\* RtProgramVars::apply(pCtx, pRtso); bad: the instances whose bindings
\* do not serialize at this call
Apply ==
    /\ Alive
    /\ applies < MaxApplies
    /\ \E rtso \in RtsoChoices(applies), ub \in UbOutcomes(pVars, pProgram, pScene) :
       \E bad \in BadSets(pVars) :
         LET r == apply(pVars, pProgram, pScene, rtso, bad, ub) IN
           /\ pVars' = [pVars EXCEPT !.mSbtData.data = r.data, !.mpSBT.data = r.gpu]
           /\ ret' = r.ret
           /\ log' = r.log
           /\ heapCorrupt' = (heapCorrupt \/ r.corrupt)
    /\ applies' = applies + 1
    /\ UNCHANGED <<pProgram, pScene, idSize, created, lastPtr>>

CallGetRayGenRecordPtr ==
    /\ Alive
    /\ LET p == getRayGenRecordPtr(pVars) IN
         lastPtr' = [fn |-> "rg", a |-> 0, b |-> 0, fatal |-> p.fatal, offset |-> p.offset]
    /\ ret' = IF lastPtr'.fatal THEN "fatal" ELSE ret
    /\ UNCHANGED <<pProgram, pScene, idSize, created, pVars, log, heapCorrupt, applies>>

CallGetMissRecordPtr ==
    /\ Alive
    /\ \E missId \in 0..(MaxMiss + 1) :
         LET p == getMissRecordPtr(pVars, missId) IN
           lastPtr' = [fn |-> "miss", a |-> missId, b |-> 0, fatal |-> p.fatal, offset |-> p.offset]
    /\ ret' = IF lastPtr'.fatal THEN "fatal" ELSE ret
    /\ UNCHANGED <<pProgram, pScene, idSize, created, pVars, log, heapCorrupt, applies>>

CallGetHitRecordPtr ==
    /\ Alive
    /\ \E hitId \in 0..(MaxHit + 1), meshId \in 0..(MaxGeom + 1) :
         LET p == getHitRecordPtr(pVars, hitId, meshId) IN
           lastPtr' = [fn |-> "hit", a |-> hitId, b |-> meshId, fatal |-> p.fatal, offset |-> p.offset]
    /\ ret' = IF lastPtr'.fatal THEN "fatal" ELSE ret
    /\ UNCHANGED <<pProgram, pScene, idSize, created, pVars, log, heapCorrupt, applies>>

\* the scene keeps the geometry count it was constructed with
Next == Create \/ Apply

Spec == Init /\ [][Next]_vars

\* the scene is edited between the calls
NextScene == Create \/ SceneEdit \/ Apply

SpecScene == Init /\ [][NextScene]_vars

NextLayout == Create \/ CallGetRayGenRecordPtr \/ CallGetMissRecordPtr \/ CallGetHitRecordPtr

SpecLayout == InitLayout /\ [][NextLayout]_vars

(* ============================== claims ================================= *)
H == Len(pProgram.hit)
Mi == Len(pProgram.miss)
G == pScene.geometryCount
R == pVars.mRecordSize
TotalRecords == 1 + Mi + H * G

\* the calls of applyRtProgramVars() the last apply() made
RecordCalls == {i \in 1..Len(log) : log[i].cat # "upload"}

Returned == applies > 0 /\ ret \in {"true", "false"}

\* C1: apply() returns success only if every per-record application of the
\* call succeeded, the ray-gen record's included.
C1_SuccessOnlyIfEveryRecordApplied ==
    (applies > 0 /\ ret = "true") => \A i \in RecordCalls : log[i].ok

\* C2: a call of apply() that returns failure leaves the GPU-visible buffer
\* as it was before the call.
C2_FailureLeavesGpuBuffer ==
    [][(applies' = applies + 1 /\ ret' = "false") => pVars'.mpSBT = pVars.mpSBT]_vars

\* a second call failed at a miss record, after hit records were rewritten
\* in the staging copy, with the GPU buffer holding an earlier upload
C2_Witness ==
    /\ applies = 2 /\ ret = "false"
    /\ log[Len(log)].cat = "miss"
    /\ \E i \in RecordCalls : log[i].cat = "hit"
    /\ \A k \in 1..Len(pVars.mpSBT.data) : pVars.mpSBT.data[k].cat # "uninit"
    /\ pVars.mpSBT.data # pVars.mSbtData.data

\* C3: apply() never addresses a hit record or a hit binding-variable
\* instance with a geometry index the buffer and the variable arrays were
\* not sized for at construction.
C3_NoHitRecordBeyondConstruction ==
    \A i \in RecordCalls :
        log[i].cat = "hit" =>
            /\ HasHitVars(pVars, log[i].vars.prog, log[i].vars.geom)
            /\ InStaging(pVars, log[i].offset)

\* C4: getMissRecordPtr rejects missId >= missProgramCount, and
\* getHitRecordPtr rejects hitId >= hitProgramCount and meshId >= G.
C4_AccessorsRejectOutOfRange ==
    /\ (lastPtr.fn = "miss" /\ lastPtr.a >= Mi) => lastPtr.fatal
    /\ (lastPtr.fn = "hit" /\ (lastPtr.a >= H \/ lastPtr.b >= G)) => lastPtr.fatal

\* C5: create() returns nullptr, without running init(), unless a scene is
\* supplied and the program set has a ray-gen program; when both hold it
\* returns an initialised object.
C5_CreateValidates ==
    created # "no" =>
        IF pScene.present /\ pProgram.hasRayGen
        THEN /\ created = "object"
             /\ pVars.initRun
             /\ pVars.mRecordSize > 0
             /\ Len(pVars.mRayGenVars) = 1
             /\ pVars.mSbtData.size > 0
        ELSE /\ created = "nullptr"
             /\ pVars = RtProgramVars(pProgram, pScene)

\* create() was refused for a program set without ray-gen program, the
\* scene being there
C5_Witness == created = "nullptr" /\ pScene.present /\ ~pProgram.hasRayGen

\* the valid records of the table, each with the offset its accessor returns
ValidRecords ==
    {[key |-> Key("rg", 0, 0), p |-> getRayGenRecordPtr(pVars)]}
      \cup {[key |-> Key("miss", m, 0), p |-> getMissRecordPtr(pVars, m)] : m \in 0..(Mi - 1)}
      \cup {[key |-> Key("hit", h, g), p |-> getHitRecordPtr(pVars, h, g)] :
               h \in 0..(H - 1), g \in 0..(G - 1)}

\* C6: the offsets follow the layout formulas; hitOffset increases strictly
\* with g, and with h inside one g block; the records' byte ranges are
\* pairwise disjoint and lie inside the staging buffer.
C6_LayoutOffsets ==
    created = "object" =>
        /\ getRayGenRecordPtr(pVars).offset = 0
        /\ \A m \in 0..(Mi - 1) :
              getMissRecordPtr(pVars, m) = [fatal |-> FALSE, offset |-> (1 + m) * R]
        /\ \A h \in 0..(H - 1), g \in 0..(G - 1) :
              getHitRecordPtr(pVars, h, g) =
                 [fatal |-> FALSE, offset |-> (1 + Mi + H * g + h) * R]
        /\ \A h1, h2 \in 0..(H - 1), g1, g2 \in 0..(G - 1) :
              (g1 < g2 \/ (g1 = g2 /\ h1 < h2)) =>
                 getHitRecordPtr(pVars, h1, g1).offset < getHitRecordPtr(pVars, h2, g2).offset
        /\ \A x, y \in ValidRecords :
              x.key # y.key =>
                 (x.p.offset + R <= y.p.offset \/ y.p.offset + R <= x.p.offset)
        /\ \A x \in ValidRecords :
              ~x.p.fatal /\ x.p.offset + R <= pVars.mSbtData.size
        /\ pVars.mSbtData.size = TotalRecords * R

\* the accessor of the last hit record of a table of two hit programs, two
\* geometry instances and a miss program was called
C6_Witness ==
    /\ created = "object" /\ H = 2 /\ G = 2 /\ Mi = 1
    /\ lastPtr.fn = "hit" /\ lastPtr.a = 1 /\ lastPtr.b = 1 /\ ~lastPtr.fatal

RECURSIVE SumLen(_)
SumLen(s) == IF s = <<>> THEN 0 ELSE Len(Head(s)) + SumLen(Tail(s))

\* C7: after construction the table has 1 + Mi + H*G records, both buffers
\* have that many records of recordSize bytes, and as many binding-variable
\* instances were created.
C7_RecordAndInstanceCount ==
    created = "object" =>
        /\ pVars.mpSBT.size = TotalRecords * R
        /\ pVars.mSbtData.size = TotalRecords * R
        /\ Len(pVars.mpSBT.data) = TotalRecords
        /\ Len(pVars.mSbtData.data) = TotalRecords
        /\ Len(pVars.mRayGenVars) + SumLen(pVars.mHitVars) + Len(pVars.mMissVars)
              = TotalRecords
        /\ Len(pVars.mHitVars) = H
        /\ \A h \in 1..H : Len(pVars.mHitVars[h]) = G

C7_Witness == created = "object" /\ H = 2 /\ G = 2 /\ Mi = 1 /\ TotalRecords = 6

\* the root-signature sizes of all programs of the set
AllRootSigSizes ==
    {pProgram.rayGen} \cup {pProgram.hit[i] : i \in 1..H} \cup {pProgram.miss[i] : i \in 1..Mi}

MaxRootSig == CHOOSE x \in AllRootSigSizes : \A y \in AllRootSigSizes : y <= x

\* the least multiple of a that is >= x
AlignUp(x, a) == CHOOSE y \in x..(x + a - 1) : y % a = 0

\* C8: recordSize is identifierSize + the largest root-signature size of any
\* program, rounded up to the record alignment; it is a nonzero multiple of
\* the alignment and holds the identifier and parameter block of every program.
C8_RecordSize ==
    created = "object" =>
        /\ R = AlignUp(idSize + MaxRootSig, D3D12_RAYTRACING_SHADER_RECORD_BYTE_ALIGNMENT)
        /\ R > 0
        /\ R % D3D12_RAYTRACING_SHADER_RECORD_BYTE_ALIGNMENT = 0
        /\ \A x \in AllRootSigSizes : idSize + x <= R
        /\ pVars.mProgramIdentifierSize = idSize

\* the largest root signature is that of the first hit program, not of the
\* last program looked at, and the sum is not aligned by itself
C8_Witness ==
    /\ created = "object" /\ H = 2 /\ Mi = 1
    /\ pProgram.hit[1] = 72 /\ pProgram.hit[2] = 8 /\ pProgram.miss[1] = 0
    /\ pProgram.rayGen = 8
    /\ R = 128

\* C9: when every per-record application of a call succeeds, apply() returns
\* success and the GPU-visible buffer equals the staging buffer.
C9_SuccessUploadsStaging ==
    (applies > 0 /\ ret # "crash" /\ \A i \in RecordCalls : log[i].ok) =>
        /\ ret = "true"
        /\ pVars.mpSBT = pVars.mSbtData

\* a second successful call replaced every record of a full table
C9_Witness ==
    /\ applies = 2 /\ ret = "true" /\ H = 2 /\ G = 2 /\ Mi = 1
    /\ \A k \in 1..TotalRecords : pVars.mpSBT.data[k].ok /\ pVars.mpSBT.data[k].rtso = 2

\* the k-th record application of a complete call, k in 1..TotalRecords:
\* ray-gen, hit records (hit program outer, geometry inner), miss records
ExpectedCall(k) ==
    IF k = 1 THEN [cat |-> "rg", prog |-> 0, vars |-> Key("rg", 0, 0), offset |-> 0]
    ELSE IF k <= 1 + H * G
    THEN LET h == (k - 2) \div G
             g == (k - 2) % G
         IN [cat |-> "hit", prog |-> h, vars |-> Key("hit", h, g),
             offset |-> (1 + Mi + H * g + h) * R]
    ELSE LET m == k - 2 - H * G
         IN [cat |-> "miss", prog |-> m, vars |-> Key("miss", m, 0), offset |-> (1 + m) * R]

CallOf(e) == [cat |-> e.cat, prog |-> e.prog, vars |-> e.vars, offset |-> e.offset]

\* C10: a call applies the ray-gen record, the hit records (hit program
\* outer, geometry instance inner), the miss records, then uploads once as
\* the last step; a successful call applies each of the totalRecords slots
\* exactly once, each with its own program and instance; nothing is applied
\* after the first failing hit or miss record.
C10_ApplyOrder ==
    Returned =>
        /\ \A i \in RecordCalls : i <= TotalRecords /\ CallOf(log[i]) = ExpectedCall(i)
        /\ \A i \in RecordCalls :
              (i < Len(log) /\ log[i].cat # "rg") => log[i].ok
        /\ ret = "true" =>
              /\ Len(log) = TotalRecords + 1
              /\ RecordCalls = 1..TotalRecords
              /\ log[Len(log)] = UploadEntry
              /\ {log[i].offset \div R : i \in RecordCalls} = 0..(TotalRecords - 1)
        /\ ret = "false" =>
              /\ RecordCalls = 1..Len(log)
              /\ log[Len(log)].cat \in {"hit", "miss"}
              /\ ~log[Len(log)].ok

\* a call on a full table failed at the third hit record it applied, a
\* second unresolvable instance being behind it
C10_Witness ==
    /\ ret = "false" /\ H = 2 /\ G = 2 /\ Mi = 1
    /\ Len(log) = 4
    /\ log[4].vars = Key("hit", 1, 0)
    /\ log[3].vars = Key("hit", 0, 1)
    /\ ~log[1].ok

====
